---- MODULE Spec2Model ----
(***************************************************************************)
(* Project Researcher Agent (agent.py, config.py): the progress tracker,   *)
(* the receive loops of the four operations, and the command loop that     *)
(* calls them.                                                             *)
(***************************************************************************)
EXTENDS Integers, Sequences, FiniteSets, TLC

VARIABLES
    pc,           \* position of the driver's control flow
    mode,         \* "interactive" (command loop) or "oneshot" (argv), "none" before main
    op,           \* operation in progress or returned last: "none", "research", "follow",
                  \* "parallel", "synthesize"
    loop,         \* receive loop in progress or run last: "none", "clarify" (research's
                  \* first turn), "context" (follow-up's first turn), or an operation name
    topic,        \* topic string of the operation in progress (sequence of characters)
    domain,       \* domain detect_domain returned for it
    dirs,         \* slugs of the topic directories that exist under TOPICS_DIR
    existed,      \* whether the topic's directory existed when the operation was called
    session,      \* "none" or "open": the operation's ClaudeSDKClient
    acquired,     \* sessions opened by the operation in progress
    sent,         \* instructions sent (client.query) on the open session
    tracker,      \* the ToolProgressTracker of the running receive loop
    _tracker,     \* the module's global ToolProgressTracker
    now,          \* time.time(), whole seconds
    last_check,   \* the receive loop's last_check
    cur,          \* the content block handled by the latest step, if it handled one
    nBlocks,      \* blocks of the current assistant message handled so far
    started,      \* records the tracker started while handling them
    last,         \* the event delivered last in the current receive loop
    out,          \* lines printed by the latest step
    banners,      \* closing banners printed by the operation in progress
    raised,       \* whether an exception left the operation in progress
    nEvents,      \* assistant and other events delivered since the program started
    nTurns,       \* follow-up questions asked in the current follow-up session
    nCmds,        \* commands read by the command loop
    log,          \* every line a tracker driven call by call has printed
    lastCall,     \* the call made last on that tracker
    prevTracker,  \* that tracker's state before the call
    prevLog,      \* its output before the call
    nCalls,       \* calls made on it
    fnArgs,       \* arguments of the function evaluated on its own
    fnRet         \* what it returned or raised

driverVars == <<pc, mode, op, loop, topic, domain, dirs, existed, session, acquired, sent,
                last_check, cur, nBlocks, started, last, out, banners, raised,
                nEvents, nTurns, nCmds, _tracker>>
callVars == <<log, lastCall, prevTracker, prevLog, nCalls>>
fnVars == <<fnArgs, fnRet>>
vars == <<pc, mode, op, loop, topic, domain, dirs, existed, session, acquired, sent,
          tracker, now, last_check, cur, nBlocks, started, last, out, banners, raised,
          nEvents, nTurns, nCmds, log, lastCall, prevTracker, prevLog, nCalls,
          fnArgs, fnRet, _tracker>>

(***************************************************************************)
(* Bounds of the model.                                                    *)
(***************************************************************************)
MaxCalls == 4      \* calls made on the tracker driven call by call
MaxEvents == 2     \* assistant and other events delivered in one run
MaxBlocks == 2     \* content blocks of one assistant message
MaxTurns == 1      \* follow-up questions of one follow-up session
MaxCmds == 2       \* commands read by the interactive command loop

\* Seconds that may pass while the program waits (for an event, for a call).
Deltas == {0, 31}

(***************************************************************************)
(* Optional values: None is <<>>, a value x is <<x>>.                      *)
(***************************************************************************)
None == <<>>
Some(x) == <<x>>

(***************************************************************************)
(* ToolProgressTracker (agent.py 60-113)                                    *)
(***************************************************************************)
SLOW_THRESHOLD == 30

\* ToolProgressTracker.__init__
NewTracker == [current_tool |-> None, current_detail |-> <<>>, start_time |-> None]

\* Python truth of `self.current_tool and self.start_time`
IsOpen(t) ==
    /\ t.current_tool # None /\ t.current_tool[1] # ""
    /\ t.start_time # None /\ t.start_time[1] # 0

\* A printed line: its kind, the time of its [HH:MM:SS] stamp, the tool it names,
\* the detail of a start line, the duration of a complete or heartbeat line.
Line(kind, at, tool, detail, text) ==
    [kind |-> kind, at |-> at, tool |-> tool, detail |-> detail, text |-> text]

\* _format_duration testing `seconds <= 60`: one minute is still shown in seconds
FormatDurationLate(seconds) ==
    IF seconds <= 60
    THEN ToString(seconds) \o "s"
    ELSE ToString(seconds \div 60) \o "m " \o ToString(seconds % 60) \o "s"

\* ToolProgressTracker._format_duration, for whole seconds
FormatDuration(seconds) ==
    IF seconds < 60
    THEN ToString(seconds) \o "s"
    ELSE ToString(seconds \div 60) \o "m " \o ToString(seconds % 60) \o "s"

\* complete() with its reset removed: the record stays open after its line
CompleteKeepsRecord(t, clock) ==
    [t |-> t,
     out |-> IF IsOpen(t)
             THEN <<Line("complete", clock, t.current_tool[1], <<>>,
                         FormatDuration(clock - t.start_time[1]))>>
             ELSE <<>>]

\* ToolProgressTracker.complete: the tracker after the call and the lines printed
Complete(t, clock) ==
    [t |-> NewTracker,
     out |-> IF IsOpen(t)
             THEN <<Line("complete", clock, t.current_tool[1], <<>>,
                         FormatDuration(clock - t.start_time[1]))>>
             ELSE <<>>]

\* start() without its leading self.complete(): the open record is overwritten
StartDropsOpen(t, tool_name, detail, clock) ==
    [t |-> [current_tool |-> Some(tool_name), current_detail |-> detail,
            start_time |-> Some(clock)],
     out |-> <<Line("start", clock, tool_name, detail, "")>>]

\* ToolProgressTracker.start
Start(t, tool_name, detail, clock) ==
    LET done == Complete(t, clock) IN
    [t |-> [current_tool |-> Some(tool_name), current_detail |-> detail,
            start_time |-> Some(clock)],
     out |-> done.out \o <<Line("start", clock, tool_name, detail, "")>>]

\* check_slow comparing with >= : a heartbeat at exactly SLOW_THRESHOLD seconds
CheckSlowAtThreshold(t, clock) ==
    [t |-> t,
     out |-> IF IsOpen(t) /\ clock - t.start_time[1] >= SLOW_THRESHOLD
             THEN <<Line("slow", clock, t.current_tool[1], <<>>,
                         FormatDuration(clock - t.start_time[1]))>>
             ELSE <<>>]

\* ToolProgressTracker.check_slow
CheckSlow(t, clock) ==
    [t |-> t,
     out |-> IF IsOpen(t) /\ clock - t.start_time[1] > SLOW_THRESHOLD
             THEN <<Line("slow", clock, t.current_tool[1], <<>>,
                         FormatDuration(clock - t.start_time[1]))>>
             ELSE <<>>]

(***************************************************************************)
(* Text.  A Python str that the program takes apart is a sequence of       *)
(* one-character strings; Str spells a few of them.                        *)
(***************************************************************************)
UpperLetters == <<"A", "B", "C", "D", "E", "F", "G", "H", "I", "J", "K", "L", "M",
                  "N", "O", "P", "Q", "R", "S", "T", "U", "V", "W", "X", "Y", "Z", "É">>
LowerLetters == <<"a", "b", "c", "d", "e", "f", "g", "h", "i", "j", "k", "l", "m",
                  "n", "o", "p", "q", "r", "s", "t", "u", "v", "w", "x", "y", "z", "é">>
Digits == {"0", "1", "2", "3", "4", "5", "6", "7", "8", "9"}
Range(f) == {f[i] : i \in DOMAIN f}

\* str.lower, one character
LowerChar(c) ==
    IF \E i \in DOMAIN UpperLetters : UpperLetters[i] = c
    THEN LowerLetters[CHOOSE i \in DOMAIN UpperLetters : UpperLetters[i] = c]
    ELSE c

\* str.lower
Lower(s) == [i \in 1..Len(s) |-> LowerChar(s[i])]

\* \s of re, str.isspace
IsSpace(c) == c \in {" ", "\t", "\n"}

\* \w of re on a str pattern: letters of any script, digits, underscore
IsWord(c) == c \in Range(UpperLetters) \cup Range(LowerLetters) \cup Digits \cup {"_"}

RECURSIVE LStrip(_)
LStrip(s) == IF s # <<>> /\ IsSpace(Head(s)) THEN LStrip(Tail(s)) ELSE s

RECURSIVE RStrip(_)
RStrip(s) ==
    IF s # <<>> /\ IsSpace(s[Len(s)]) THEN RStrip(SubSeq(s, 1, Len(s) - 1)) ELSE s

\* str.strip
Strip(s) == RStrip(LStrip(s))

\* s[:n]
Prefix(s, n) == SubSeq(s, 1, IF Len(s) < n THEN Len(s) ELSE n)

(***************************************************************************)
(* slugify and get_topic_dir (agent.py 143-157)                             *)
(***************************************************************************)
SLUG_MAX == 50

\* re.sub(r"[\s_]+", "-", text)
RECURSIVE CollapseRuns(_)
CollapseRuns(s) ==
    IF s = <<>> THEN <<>>
    ELSE IF IsSpace(Head(s)) \/ Head(s) = "_"
         THEN LET rest == CollapseRuns(Tail(s)) IN
              IF Len(s) > 1 /\ (IsSpace(s[2]) \/ s[2] = "_")
              THEN rest
              ELSE <<"-">> \o rest
         ELSE <<Head(s)>> \o CollapseRuns(Tail(s))

\* slugify
slugify(text) ==
    LET t1 == Strip(Lower(text))
        t2 == SelectSeq(t1, LAMBDA c : IsWord(c) \/ IsSpace(c) \/ c = "-")
        t3 == CollapseRuns(t2)
    IN  Prefix(t3, SLUG_MAX)

\* get_topic_dir: the directories under TOPICS_DIR after the call (mkdir with exist_ok)
get_topic_dir(topic_, existing) == existing \cup {slugify(topic_)}

(***************************************************************************)
(* Session events (claude_agent_sdk messages) and their content blocks.    *)
(***************************************************************************)
ToolNames == {"WebSearch", "WebFetch", "Read", "Write", "Glob", "Grep", "Task", "TodoWrite"}

\* allowed_tools of the ClaudeAgentOptions of each operation
AllowedTools(operation) ==
    IF operation = "synthesize"
    THEN {"Read", "Write", "Glob", "Grep"}
    ELSE {"WebSearch", "WebFetch", "Read", "Write", "Glob", "Grep", "Task", "TodoWrite"}

\* the value of the input field a dispatch reads (query, url, file_path, description)
ToolInput(name) ==
    CASE name = "WebSearch" -> {<<"m", "c", "p">>}
      [] name = "WebFetch"  -> {<<"h", ":", "/", "/", "x", "/", "a">>}
      [] name \in {"Read", "Write"} -> {<<"n", "/", "a", ".", "m", "d">>}
      [] name = "Task"      -> {<<"a", "n", "g", "l", "e">>}
      [] OTHER              -> {<<>>}

NoBlock == [type |-> "none", name |-> "", input |-> <<>>]
TextBlock == [type |-> "text", name |-> "", input |-> <<>>]
ToolUseBlock(name, input) == [type |-> "tool_use", name |-> name, input |-> input]

\* total_cost_usd of a ResultMessage, in 1/10000 dollar: absent, zero, positive
Costs == {None, Some(0), Some(12345)}

NoEvent == [type |-> "none", cost |-> None]
AssistantMessage == [type |-> "assistant", cost |-> None]
OtherMessage == [type |-> "other", cost |-> None]
ResultMessage(cost) == [type |-> "result", cost |-> cost]
StreamEnd == [type |-> "end", cost |-> None]

(***************************************************************************)
(* Detail extraction of the receive loops (agent.py 292-309, 399-410,      *)
(* 488-509, 581-588)                                                       *)
(***************************************************************************)
URL_LIMIT == 60
URL_KEEP == 57

\* display_url = url if len(url) < 60 else url[:57] + "..."
DisplayUrl(url) ==
    IF Len(url) < URL_LIMIT THEN url ELSE Prefix(url, URL_KEEP) \o <<".", ".", ".">>

RECURSIVE RStripSlash(_)
RStripSlash(s) ==
    IF Len(s) > 1 /\ s[Len(s)] = "/" THEN RStripSlash(SubSeq(s, 1, Len(s) - 1)) ELSE s

RECURSIVE AfterLastSlash(_)
AfterLastSlash(s) ==
    IF \E i \in DOMAIN s : s[i] = "/"
    THEN AfterLastSlash(Tail(s))
    ELSE s

\* Path(path).name
PathName(path) ==
    LET last_ == AfterLastSlash(RStripSlash(path)) IN
    IF last_ = <<".">> THEN <<>> ELSE last_

UpdatingProgress ==
    <<"u", "p", "d", "a", "t", "i", "n", "g", " ", "p", "r", "o", "g", "r", "e", "s", "s">>

NoDispatch == [tool |-> "", detail |-> <<>>]

\* The if/elif chain on block.name of each receive loop: the tracker name and
\* detail the loop starts, or NoDispatch when no branch matches.
Dispatch(loop_, block) ==
    LET n == block.name
        searches == loop_ \in {"research", "follow", "parallel"}
        reads == loop_ \in {"research", "parallel", "synthesize"}
        writes == loop_ \in {"research", "follow", "parallel", "synthesize"}
        tasks == loop_ = "parallel"
    IN  IF searches /\ n = "WebSearch" THEN [tool |-> "Search", detail |-> block.input]
        ELSE IF searches /\ n = "WebFetch"
             THEN [tool |-> "Fetch", detail |-> DisplayUrl(block.input)]
        ELSE IF writes /\ n = "Write" THEN [tool |-> "Save", detail |-> PathName(block.input)]
        ELSE IF reads /\ n = "Read" THEN [tool |-> "Read", detail |-> PathName(block.input)]
        ELSE IF tasks /\ n = "Task" THEN [tool |-> "Task", detail |-> block.input]
        ELSE IF tasks /\ n = "TodoWrite"
             THEN [tool |-> "TodoWrite", detail |-> UpdatingProgress]
        ELSE NoDispatch

(***************************************************************************)
(* The driver at rest: the state of its variables while a tracker is       *)
(* driven call by call.                                                    *)
(***************************************************************************)
DriverAtRest ==
    /\ pc = "none" /\ mode = "none" /\ op = "none" /\ loop = "none"
    /\ topic = <<>> /\ domain = <<>> /\ dirs = {} /\ existed = FALSE
    /\ session = "none" /\ acquired = 0 /\ sent = 0
    /\ last_check = 0 /\ cur = NoBlock /\ nBlocks = 0 /\ started = 0
    /\ last = NoEvent /\ out = <<>>
    /\ banners = 0 /\ raised = FALSE /\ nEvents = 0 /\ nTurns = 0 /\ nCmds = 0
    /\ _tracker = NewTracker

\* No function is evaluated on its own.
NoReturn == [kind |-> "none", value |-> <<>>]
FunctionsAtRest == fnArgs = [fn |-> "none"] /\ fnRet = NoReturn

(***************************************************************************)
(* A tracker driven call by call: any sequence of start, complete and      *)
(* check_slow, with time passing between the calls.                        *)
(***************************************************************************)
\* seconds that may pass before a call of check_slow: none, the threshold, more
CheckDeltas == Deltas \cup {SLOW_THRESHOLD}

CallNames == {"Search", "Fetch"}
CallDetails == {<<>>, <<"q">>}

NoCall == [name |-> "none", tool |-> "", detail |-> <<>>]

TrackerInit ==
    /\ DriverAtRest
    /\ tracker = NewTracker
    /\ now = 1
    /\ log = <<>> /\ lastCall = NoCall /\ prevTracker = NewTracker /\ prevLog = <<>>
    /\ nCalls = 0
    /\ FunctionsAtRest

\* the bookkeeping of one call made after d seconds: r is what the call returned
Called(call, d, r) ==
    /\ now' = now + d
    /\ tracker' = r.t
    /\ log' = log \o r.out
    /\ lastCall' = call
    /\ prevTracker' = tracker
    /\ prevLog' = log
    /\ nCalls' = nCalls + 1

CallStart ==
    \E d \in Deltas, n \in CallNames, dt \in CallDetails :
        /\ nCalls < MaxCalls
        /\ Called([name |-> "start", tool |-> n, detail |-> dt], d,
                  Start(tracker, n, dt, now + d))
        /\ UNCHANGED <<driverVars, fnVars>>

CallComplete ==
    \E d \in Deltas :
        /\ nCalls < MaxCalls
        /\ Called([name |-> "complete", tool |-> "", detail |-> <<>>], d,
                  Complete(tracker, now + d))
        /\ UNCHANGED <<driverVars, fnVars>>

CallCheckSlow ==
    \E d \in CheckDeltas :
        /\ nCalls < MaxCalls
        /\ Called([name |-> "check_slow", tool |-> "", detail |-> <<>>], d,
                  CheckSlow(tracker, now + d))
        /\ UNCHANGED <<driverVars, fnVars>>

TrackerNext == CallStart \/ CallComplete \/ CallCheckSlow

TrackerSpec == TrackerInit /\ [][TrackerNext]_vars

(***************************************************************************)
(* Words the program compares its input with.                              *)
(***************************************************************************)
W_research == <<"r", "e", "s", "e", "a", "r", "c", "h">>
W_follow == <<"f", "o", "l", "l", "o", "w">>
W_parallel == <<"p", "a", "r", "a", "l", "l", "e", "l">>
W_synthesize == <<"s", "y", "n", "t", "h", "e", "s", "i", "z", "e">>
W_quit == <<"q", "u", "i", "t">>
W_exit == <<"e", "x", "i", "t">>
W_q == <<"q">>
W_done == <<"d", "o", "n", "e">>
W_tech == <<"t", "e", "c", "h">>
W_policy == <<"p", "o", "l", "i", "c", "y">>
W_thought_leadership ==
    <<"t", "h", "o", "u", "g", "h", "t", "-", "l", "e", "a", "d", "e", "r", "s", "h", "i", "p">>
W_general == <<"g", "e", "n", "e", "r", "a", "l">>

\* config.DOMAINS
DOMAINS == <<W_tech, W_policy, W_thought_leadership, W_general>>

(***************************************************************************)
(* detect_domain (agent.py 160-193)                                         *)
(***************************************************************************)
\* the inner loop comparing block.text as received, without strip and lower
RECURSIVE DomainInBlocksExact(_)
DomainInBlocksExact(blocks) ==
    IF blocks = <<>> THEN None
    ELSE LET b == Head(blocks) IN
         IF b.type = "text" /\ b.text \in Range(DOMAINS)
         THEN Some(b.text)
         ELSE DomainInBlocksExact(Tail(blocks))

\* the inner loop over message.content: the first text block whose text,
\* stripped and lower-cased, is a domain; None when there is none
RECURSIVE DomainInBlocks(_)
DomainInBlocks(blocks) ==
    IF blocks = <<>> THEN None
    ELSE LET b == Head(blocks) IN
         IF b.type = "text" /\ Lower(Strip(b.text)) \in Range(DOMAINS)
         THEN Some(Lower(Strip(b.text)))
         ELSE DomainInBlocks(Tail(blocks))

\* the loop over client.receive_messages(): return at the first match, break
\* at a ResultMessage, "general" after the loop
RECURSIVE detect_domain(_)
detect_domain(stream) ==
    IF stream = <<>> THEN W_general
    ELSE LET m == Head(stream) IN
         IF m.type = "assistant"
         THEN IF DomainInBlocks(m.content) # None
              THEN DomainInBlocks(m.content)[1]
              ELSE detect_domain(Tail(stream))
         ELSE IF m.type = "result" THEN W_general
         ELSE detect_domain(Tail(stream))

DetectText(text) == [type |-> "text", text |-> text]
DetectAssistant(content) == [type |-> "assistant", content |-> content]
DetectResult == [type |-> "result", content |-> <<>>]

\* replies of the classification session the model draws from
DetectStreams ==
    { <<>>,
      <<DetectResult>>,
      <<DetectAssistant(<<DetectText(<<" ", "T", "e", "c", "h", "\n">>)>>), DetectResult>>,
      <<DetectAssistant(<<DetectText(<<"s", "p", "o", "r", "t", "s">>)>>),
        DetectAssistant(<<DetectText(W_policy)>>), DetectResult>>,
      <<DetectResult, DetectAssistant(<<DetectText(W_tech)>>)>> }

(***************************************************************************)
(* The receive loops (agent.py 244-249, 278-320, 367-372, 393-412,         *)
(* 474-520, 570-599)                                                       *)
(***************************************************************************)
POLL_INTERVAL == 10

\* loops that own a ToolProgressTracker
Tracked(loop_) == loop_ \in {"research", "follow", "parallel", "synthesize"}

\* loops over client.receive_messages(), which poll check_slow and break at a
\* ResultMessage; the others iterate client.receive_response()
OverMessages(loop_) == loop_ \in {"research", "parallel", "synthesize"}

\* the four digits of f"{cost:.4f}" after the point
Pad4(n) ==
    IF n < 10 THEN "000" \o ToString(n)
    ELSE IF n < 100 THEN "00" \o ToString(n)
    ELSE IF n < 1000 THEN "0" \o ToString(n)
    ELSE ToString(n)

\* f"Cost: ${message.total_cost_usd:.4f}", the cost in 1/10000 dollar
CostText(c) == "Cost: $" \o ToString(c \div 10000) \o "." \o Pad4(c % 10000)

\* `if now - last_check > 10: tracker.check_slow(); last_check = now`
Poll(loop_, t, clock, lc) ==
    IF OverMessages(loop_) /\ clock - lc > POLL_INTERVAL
    THEN [out |-> CheckSlow(t, clock).out, last_check |-> clock]
    ELSE [out |-> <<>>, last_check |-> lc]

\* the AssistantMessage branch without its tracker.complete()
OnAssistantKeepsOpen(loop_, t, clock) == [t |-> t, out |-> <<>>]

\* the AssistantMessage branch before its blocks: tracker.complete()
OnAssistant(loop_, t, clock) ==
    IF Tracked(loop_) THEN Complete(t, clock) ELSE [t |-> t, out |-> <<>>]

\* a TextBlock: print(block.text, end="", flush=True)
OnText(loop_, t, clock) == [t |-> t, out |-> <<Line("text", clock, "", <<>>, "")>>]

\* the dispatch with the Write branch missing
OnToolUseNoSave(loop_, t, block, clock) ==
    LET d == Dispatch(loop_, block) IN
    IF Tracked(loop_) /\ d # NoDispatch /\ d.tool # "Save"
    THEN Start(t, d.tool, d.detail, clock)
    ELSE [t |-> t, out |-> <<>>]

\* a ToolUseBlock: tracker.start of the branch that matches block.name, if any
OnToolUse(loop_, t, block, clock) ==
    LET d == Dispatch(loop_, block) IN
    IF Tracked(loop_) /\ d # NoDispatch
    THEN Start(t, d.tool, d.detail, clock)
    ELSE [t |-> t, out |-> <<>>]

\* the banner of each operation
BannerTitle(loop_) ==
    CASE loop_ = "research" -> "Research complete!"
      [] loop_ = "parallel" -> "Parallel research complete!"
      [] loop_ = "synthesize" -> "Synthesis complete!"
      [] OTHER -> ""

\* the ResultMessage branch without its break
OnResultNoBreak(loop_, t, cost, clock) ==
    [t |-> Complete(t, clock).t,
     out |-> Complete(t, clock).out \o <<Line("banner", clock, "", <<>>, BannerTitle(loop_))>>
             \o (IF cost # None /\ cost[1] # 0
                 THEN <<Line("cost", clock, "", <<>>, CostText(cost[1]))>> ELSE <<>>),
     banner |-> 1,
     done |-> FALSE]

\* A ResultMessage.  Over receive_messages: tracker.complete(), the banner,
\* the cost line `if message.total_cost_usd`, break.  Over receive_response:
\* no branch matches, and the iterator ends after this message.
OnResult(loop_, t, cost, clock) ==
    IF OverMessages(loop_)
    THEN [t |-> Complete(t, clock).t,
          out |-> Complete(t, clock).out
                  \o <<Line("banner", clock, "", <<>>, BannerTitle(loop_))>>
                  \o (IF cost # None /\ cost[1] # 0
                      THEN <<Line("cost", clock, "", <<>>, CostText(cost[1]))>> ELSE <<>>),
          banner |-> 1,
          done |-> TRUE]
    ELSE [t |-> t, out |-> <<>>, banner |-> 0, done |-> TRUE]

\* what follows the loop when it was not left by break: follow_up's
\* tracker.complete() (agent.py 412), nothing in the other operations
AfterLoop(loop_, t, clock) ==
    IF loop_ = "follow" THEN Complete(t, clock) ELSE [t |-> t, out |-> <<>>]

(***************************************************************************)
(* Command parsing (agent.py 627-665, 668-686)                              *)
(***************************************************************************)
RECURSIVE FirstWord(_)
FirstWord(s) ==
    IF s = <<>> \/ IsSpace(Head(s)) THEN <<>> ELSE <<Head(s)>> \o FirstWord(Tail(s))

\* command.split(maxsplit=1) of a stripped, non-empty line: the first word and
\* the rest of the line after the white space that follows it
SplitOnce(command) ==
    LET first == FirstWord(command)
        rest == LStrip(SubSeq(command, Len(first) + 1, Len(command)))
    IN  IF rest = <<>> THEN <<first>> ELSE <<first, rest>>

\* " ".join(words)
RECURSIVE Join(_)
Join(words) ==
    IF words = <<>> THEN <<>>
    ELSE IF Len(words) = 1 THEN words[1]
    ELSE words[1] \o <<" ">> \o Join(Tail(words))

NoCommand == [do |-> "none", topic |-> <<>>]

\* the if/elif chain of interactive_session comparing parts[0] as typed,
\* without .lower()
ParseCommandCaseSensitive(command) ==
    LET parts == SplitOnce(command)
        cmd == parts[1]
        arg == IF Len(parts) > 1 THEN parts[2] ELSE <<>>
    IN  IF cmd \in {W_quit, W_exit, W_q} THEN [do |-> "quit", topic |-> <<>>]
        ELSE IF cmd \in {W_research, W_follow, W_parallel} /\ arg = <<>>
             THEN [do |-> "usage", topic |-> <<>>]
        ELSE IF cmd = W_research THEN [do |-> "research", topic |-> arg]
        ELSE IF cmd = W_follow THEN [do |-> "follow", topic |-> arg]
        ELSE IF cmd = W_parallel THEN [do |-> "parallel", topic |-> arg]
        ELSE IF cmd = W_synthesize THEN [do |-> "synthesize", topic |-> <<>>]
        ELSE [do |-> "research", topic |-> command]

\* interactive_session: what one stripped, non-empty line makes the loop do
ParseCommand(command) ==
    LET parts == SplitOnce(command)
        cmd == Lower(parts[1])
        arg == IF Len(parts) > 1 THEN parts[2] ELSE <<>>
    IN  IF cmd \in {W_quit, W_exit, W_q} THEN [do |-> "quit", topic |-> <<>>]
        ELSE IF cmd = W_research
             THEN IF arg = <<>> THEN [do |-> "usage", topic |-> <<>>]
                  ELSE [do |-> "research", topic |-> arg]
        ELSE IF cmd = W_follow
             THEN IF arg = <<>> THEN [do |-> "usage", topic |-> <<>>]
                  ELSE [do |-> "follow", topic |-> arg]
        ELSE IF cmd = W_parallel
             THEN IF arg = <<>> THEN [do |-> "usage", topic |-> <<>>]
                  ELSE [do |-> "parallel", topic |-> arg]
        ELSE IF cmd = W_synthesize THEN [do |-> "synthesize", topic |-> <<>>]
        ELSE [do |-> "research", topic |-> command]

\* main without its `len(sys.argv) > 2` tests: a lone keyword runs its operation
ParseArgvLoneKeyword(argv) ==
    IF Len(argv) > 0
    THEN IF argv[1] = W_follow
         THEN [do |-> "follow", topic |-> Join(Tail(argv))]
         ELSE IF argv[1] = W_parallel
         THEN [do |-> "parallel", topic |-> Join(Tail(argv))]
         ELSE IF argv[1] = W_synthesize
         THEN [do |-> "synthesize", topic |-> <<>>]
         ELSE [do |-> "research", topic |-> Join(argv)]
    ELSE [do |-> "interactive", topic |-> <<>>]

\* main: what sys.argv[1:] makes the program do
ParseArgv(argv) ==
    IF Len(argv) > 0
    THEN IF argv[1] = W_follow /\ Len(argv) > 1
         THEN [do |-> "follow", topic |-> Join(Tail(argv))]
         ELSE IF argv[1] = W_parallel /\ Len(argv) > 1
         THEN [do |-> "parallel", topic |-> Join(Tail(argv))]
         ELSE IF argv[1] = W_synthesize
         THEN [do |-> "synthesize", topic |-> <<>>]
         ELSE [do |-> "research", topic |-> Join(argv)]
    ELSE [do |-> "interactive", topic |-> <<>>]

(***************************************************************************)
(* Inputs the model draws from.                                            *)
(***************************************************************************)
T_ai == <<"a", "i">>
T_AI == <<"A", "I", "!">>

\* lines typed at the ">>> " prompt
CommandLines ==
    { <<>>, <<" ">>, W_q, <<"Q", "u", "i", "t">>,
      W_research, W_research \o <<" ">> \o T_ai,
      W_follow, <<"F", "o", "l", "l", "o", "w">> \o <<" ", " ">> \o T_ai,
      W_parallel, W_parallel \o <<" ">> \o T_AI,
      W_synthesize, T_AI }

\* sys.argv[1:]
Argvs ==
    { <<>>, <<W_follow, T_ai>>, <<W_follow>>, <<W_parallel, T_ai>>, <<W_parallel>>,
      <<W_synthesize>>, <<T_AI, T_ai>> }

\* lines typed at the "Your answers: " and "Follow-up: " prompts
Answers == { <<>>, <<"y", "e", "s">>, <<"D", "o", "n", "e">> }

\* topic directories a run may find under TOPICS_DIR
InitialDirs == { {}, {T_ai} }

(***************************************************************************)
(* The driver: main, the command loop and the four operations.             *)
(***************************************************************************)
Init ==
    /\ pc = "main" /\ mode = "none" /\ op = "none" /\ loop = "none"
    /\ topic = <<>> /\ domain = <<>> /\ dirs \in InitialDirs /\ existed = FALSE
    /\ session = "none" /\ acquired = 0 /\ sent = 0
    /\ tracker = NewTracker /\ now = 1 /\ last_check = 0
    /\ cur = NoBlock /\ nBlocks = 0 /\ started = 0 /\ last = NoEvent /\ out = <<>>
    /\ banners = 0 /\ raised = FALSE /\ nEvents = 0 /\ nTurns = 0 /\ nCmds = 0
    /\ _tracker = NewTracker
    /\ log = <<>> /\ lastCall = NoCall /\ prevTracker = NewTracker /\ prevLog = <<>>
    /\ nCalls = 0
    /\ FunctionsAtRest

Notice(text) == Line("notice", now, "", <<>>, text)

\* the locals of the operation that returned last are gone
NoFrame ==
    /\ loop' = "none" /\ domain' = <<>> /\ last_check' = 0
    /\ acquired' = 0 /\ sent' = 0 /\ banners' = 0 /\ nTurns' = 0
    /\ last' = NoEvent /\ cur' = NoBlock /\ nBlocks' = 0 /\ started' = 0

\* an operation is called: its frame starts empty
CallOperation(c) ==
    /\ op' = c.do /\ topic' = c.topic
    /\ existed' = (c.do # "synthesize" /\ slugify(c.topic) \in dirs)
    /\ pc' = "enter"
    /\ NoFrame

\* the operation returns to its caller: the command loop, or main
ReturnPc == IF mode = "interactive" THEN "prompt" ELSE "exit"

\* main (agent.py 668-686)
Main ==
    \E argv \in Argvs :
        /\ pc = "main"
        /\ LET c == ParseArgv(argv) IN
           IF c.do = "interactive"
           THEN /\ mode' = "interactive" /\ pc' = "prompt"
                /\ UNCHANGED <<op, topic, existed>>
                /\ NoFrame
           ELSE /\ mode' = "oneshot" /\ CallOperation(c)
        /\ out' = <<>>
        /\ UNCHANGED <<dirs, session, tracker, now, raised, nEvents, nCmds>>
        /\ UNCHANGED <<callVars, fnVars, _tracker>>

\* interactive_session: input(">>> ") raises EOFError or KeyboardInterrupt
ReadEndOfInput ==
    /\ pc = "prompt" /\ nCmds < MaxCmds
    /\ nCmds' = nCmds + 1
    /\ pc' = "exit"
    /\ out' = <<Notice("\nGoodbye!")>>
    /\ NoFrame
    /\ UNCHANGED <<mode, op, topic, dirs, existed, session, tracker, now, raised, nEvents>>
    /\ UNCHANGED <<callVars, fnVars, _tracker>>

\* interactive_session: one line read at the prompt (agent.py 629-663)
ReadCommand ==
    \E line \in CommandLines :
        /\ pc = "prompt" /\ nCmds < MaxCmds
        /\ nCmds' = nCmds + 1
        /\ LET command == Strip(line)
               c == IF command = <<>> THEN NoCommand ELSE ParseCommand(command)
           IN  IF c.do = "none"
               THEN /\ pc' = "prompt" /\ out' = <<>>
                    /\ NoFrame /\ UNCHANGED <<op, topic, existed>>
               ELSE IF c.do = "quit"
               THEN /\ pc' = "exit" /\ out' = <<Notice("Goodbye!")>>
                    /\ NoFrame /\ UNCHANGED <<op, topic, existed>>
               ELSE IF c.do = "usage"
               THEN /\ pc' = "prompt" /\ out' = <<Notice("Usage")>>
                    /\ NoFrame /\ UNCHANGED <<op, topic, existed>>
               ELSE /\ CallOperation(c) /\ out' = <<>>
        /\ UNCHANGED <<mode, dirs, session, tracker, now, raised, nEvents>>
        /\ UNCHANGED <<callVars, fnVars, _tracker>>

\* research, research_parallel: get_topic_dir, then detect_domain is called
\* (agent.py 198-203, 417-422)
EnterResearch ==
    /\ pc = "enter" /\ op \in {"research", "parallel"}
    /\ dirs' = get_topic_dir(topic, dirs)
    /\ out' = <<Notice("[Detecting domain...]")>>
    /\ pc' = "detect"
    /\ UNCHANGED <<mode, op, loop, topic, domain, existed, session, acquired, sent, tracker,
                   now, last_check, cur, nBlocks, started, last, banners, raised, nEvents,
                   nTurns, nCmds>>
    /\ UNCHANGED <<callVars, fnVars, _tracker>>

\* detect_domain: its own session, one query, the reply classified
DetectDomain ==
    \E stream \in DetectStreams :
        /\ pc = "detect"
        /\ domain' = detect_domain(stream)
        /\ acquired' = acquired + 1
        /\ out' = <<Notice("[Domain]")>>
        /\ pc' = "acquire"
        /\ UNCHANGED <<mode, op, loop, topic, dirs, existed, session, sent, tracker, now,
                       last_check, cur, nBlocks, started, last, banners, raised, nEvents,
                       nTurns, nCmds>>
        /\ UNCHANGED <<callVars, fnVars, _tracker>>

\* follow_up: get_topic_dir, the existence test (agent.py 325-338)
EnterFollowUp ==
    /\ pc = "enter" /\ op = "follow"
    /\ dirs' = get_topic_dir(topic, dirs)
    /\ IF slugify(topic) \notin dirs'
       THEN /\ out' = <<Notice("No existing research found")>>
            /\ pc' = ReturnPc
       ELSE /\ out' = <<>>
            /\ pc' = "acquire"
    /\ UNCHANGED <<mode, op, loop, topic, domain, existed, session, acquired, sent, tracker,
                   now, last_check, cur, nBlocks, started, last, banners, raised, nEvents,
                   nTurns, nCmds>>
    /\ UNCHANGED <<callVars, fnVars, _tracker>>

\* synthesize: the topics test (agent.py 526-535)
EnterSynthesize ==
    /\ pc = "enter" /\ op = "synthesize"
    /\ IF dirs = {}
       THEN /\ out' = <<Notice("No research topics found")>>
            /\ pc' = ReturnPc
       ELSE /\ out' = <<>>
            /\ pc' = "acquire"
    /\ UNCHANGED <<mode, op, loop, topic, domain, dirs, existed, session, acquired, sent,
                   tracker, now, last_check, cur, nBlocks, started, last, banners, raised,
                   nEvents, nTurns, nCmds>>
    /\ UNCHANGED <<callVars, fnVars, _tracker>>

\* the session acquired without `tracker = ToolProgressTracker()`: the loop
\* runs on the tracker the previous loop left
AcquireKeepsTracker ==
    /\ pc = "acquire"
    /\ session' = "open"
    /\ acquired' = acquired + 1
    /\ sent' = 1
    /\ loop' = CASE op = "research" -> "clarify"
                 [] op = "follow" -> "context"
                 [] OTHER -> op
    /\ IF op \in {"parallel", "synthesize"}
       THEN tracker' = tracker /\ last_check' = now
       ELSE UNCHANGED <<tracker, last_check>>
    /\ domain' = <<>>
    /\ out' = <<>>
    /\ pc' = "await"
    /\ UNCHANGED <<mode, op, topic, dirs, existed, now, cur, nBlocks, started, last,
                   banners, raised, nEvents, nTurns, nCmds>>
    /\ UNCHANGED <<callVars, fnVars, _tracker>>

\* `async with ClaudeSDKClient(options) as client: await client.query(...)` and,
\* where the receive loop follows at once, its tracker and last_check
\* (agent.py 231-242, 357-364, 451-472, 564-568).  The domain has gone into
\* the system prompt and the header by now and is not read again.
Acquire ==
    /\ pc = "acquire"
    /\ session' = "open"
    /\ acquired' = acquired + 1
    /\ sent' = 1
    /\ loop' = CASE op = "research" -> "clarify"
                 [] op = "follow" -> "context"
                 [] OTHER -> op
    /\ IF op \in {"parallel", "synthesize"}
       THEN tracker' = NewTracker /\ last_check' = now
       ELSE UNCHANGED <<tracker, last_check>>
    /\ domain' = <<>>
    /\ out' = <<>>
    /\ pc' = "await"
    /\ UNCHANGED <<mode, op, topic, dirs, existed, now, cur, nBlocks, started, last,
                   banners, raised, nEvents, nTurns, nCmds>>
    /\ UNCHANGED <<callVars, fnVars, _tracker>>

\* an exception of the transport: while a session is acquired, in a query,
\* or from the event iterator.  No operation and no caller catches it.
TransportRaises ==
    /\ pc \in {"detect", "acquire", "await"}
    /\ raised' = TRUE
    /\ session' = "none"
    /\ pc' = "crashed"
    /\ out' = <<Notice("Traceback")>>
    /\ UNCHANGED <<mode, op, loop, topic, domain, dirs, existed, acquired, sent, tracker,
                   now, last_check, cur, nBlocks, started, last, banners, nEvents, nTurns,
                   nCmds>>
    /\ UNCHANGED <<callVars, fnVars, _tracker>>

\* seconds that may pass while a loop waits for its next event (a loop without
\* a tracker reads no clock)
WaitDeltas(loop_) == IF Tracked(loop_) THEN Deltas ELSE {0}

\* an AssistantMessage is delivered: the poll, tracker.complete(); its blocks follow
RecvAssistant ==
    \E d \in WaitDeltas(loop) :
        /\ pc = "await" /\ nEvents < MaxEvents
        /\ now' = now + d
        /\ LET p == Poll(loop, tracker, now + d, last_check)
               r == OnAssistant(loop, tracker, now + d)
           IN  /\ last_check' = p.last_check
               /\ tracker' = r.t
               /\ out' = p.out \o r.out
        /\ last' = AssistantMessage
        /\ cur' = NoBlock /\ nBlocks' = 0 /\ started' = 0
        /\ nEvents' = nEvents + 1
        /\ pc' = "blocks"
        /\ UNCHANGED <<mode, op, loop, topic, domain, dirs, existed, session, acquired, sent,
                       banners, raised, nTurns, nCmds>>
        /\ UNCHANGED <<callVars, fnVars, _tracker>>

\* the next block of the message is a TextBlock
HandleText ==
    /\ pc = "blocks" /\ nBlocks < MaxBlocks
    /\ LET r == OnText(loop, tracker, now) IN
       /\ tracker' = r.t
       /\ out' = r.out
    /\ cur' = TextBlock
    /\ nBlocks' = nBlocks + 1
    /\ UNCHANGED <<pc, mode, op, loop, topic, domain, dirs, existed, session, acquired, sent,
                   now, last_check, started, last, banners, raised, nEvents, nTurns, nCmds>>
    /\ UNCHANGED <<callVars, fnVars, _tracker>>

\* the next block of the message is a ToolUseBlock
HandleToolUse ==
    \E n \in AllowedTools(op) : \E x \in ToolInput(n) :
        /\ pc = "blocks" /\ nBlocks < MaxBlocks
        /\ LET r == OnToolUse(loop, tracker, ToolUseBlock(n, x), now) IN
           /\ tracker' = r.t
           /\ out' = r.out
           /\ started' = started + Len(SelectSeq(r.out, LAMBDA l : l.kind = "start"))
        /\ cur' = ToolUseBlock(n, x)
        /\ nBlocks' = nBlocks + 1
        /\ UNCHANGED <<pc, mode, op, loop, topic, domain, dirs, existed, session, acquired,
                       sent, now, last_check, last, banners, raised, nEvents, nTurns, nCmds>>
        /\ UNCHANGED <<callVars, fnVars, _tracker>>

\* the message has no further block: print()
EndMessage ==
    /\ pc = "blocks"
    /\ out' = <<Line("newline", now, "", <<>>, "")>>
    /\ cur' = NoBlock
    /\ pc' = "await"
    /\ UNCHANGED <<mode, op, loop, topic, domain, dirs, existed, session, acquired, sent,
                   tracker, now, last_check, nBlocks, started, last, banners, raised,
                   nEvents, nTurns, nCmds>>
    /\ UNCHANGED <<callVars, fnVars, _tracker>>

\* a message that is neither AssistantMessage nor ResultMessage: the poll alone
RecvOther ==
    \E d \in WaitDeltas(loop) :
        /\ pc = "await" /\ nEvents < MaxEvents
        /\ now' = now + d
        /\ LET p == Poll(loop, tracker, now + d, last_check) IN
           /\ last_check' = p.last_check
           /\ out' = p.out
        /\ last' = OtherMessage
        /\ cur' = NoBlock /\ nBlocks' = 0 /\ started' = 0
        /\ nEvents' = nEvents + 1
        /\ UNCHANGED <<pc, mode, op, loop, topic, domain, dirs, existed, session, acquired,
                       sent, tracker, banners, raised, nTurns, nCmds>>
        /\ UNCHANGED <<callVars, fnVars, _tracker>>

\* where control goes when the receive loop is over
AfterLoopPc(loop_) == IF loop_ \in {"clarify", "context", "follow"} THEN "ask" ELSE ReturnPc

\* a ResultMessage is delivered
RecvResult ==
    \E d \in WaitDeltas(loop), cost \in Costs :
        /\ pc = "await"
        /\ now' = now + d
        /\ LET p == Poll(loop, tracker, now + d, last_check)
               r == OnResult(loop, tracker, cost, now + d)
               a == IF OverMessages(loop) THEN [t |-> r.t, out |-> <<>>]
                    ELSE AfterLoop(loop, r.t, now + d)
           IN  /\ last_check' = p.last_check
               /\ tracker' = a.t
               /\ out' = p.out \o r.out \o a.out
               /\ banners' = banners + r.banner
               /\ IF r.done
                  THEN /\ pc' = AfterLoopPc(loop)
                       /\ session' = IF AfterLoopPc(loop) = "ask" THEN session ELSE "none"
                  ELSE UNCHANGED <<pc, session>>
        /\ last' = ResultMessage(cost)
        /\ cur' = NoBlock /\ nBlocks' = 0 /\ started' = 0
        /\ UNCHANGED <<mode, op, loop, topic, domain, dirs, existed, acquired, sent, raised,
                       nEvents, nTurns, nCmds>>
        /\ UNCHANGED <<callVars, fnVars, _tracker>>

\* the event stream is exhausted: the loop ends without a further event
StreamEnds ==
    \E d \in WaitDeltas(loop) :
        /\ pc = "await"
        /\ now' = now + d
        /\ LET a == AfterLoop(loop, tracker, now + d) IN
           /\ tracker' = a.t
           /\ out' = a.out
        /\ last' = StreamEnd
        /\ cur' = NoBlock /\ nBlocks' = 0 /\ started' = 0
        /\ pc' = AfterLoopPc(loop)
        /\ session' = IF AfterLoopPc(loop) = "ask" THEN session ELSE "none"
        /\ UNCHANGED <<mode, op, loop, topic, domain, dirs, existed, acquired, sent,
                       last_check, banners, raised, nEvents, nTurns, nCmds>>
        /\ UNCHANGED <<callVars, fnVars, _tracker>>

\* research entering its tracked loop without client.query(research_prompt)
AnswerClarificationNoQuery ==
    \E answer \in Answers :
        /\ pc = "ask" /\ op = "research"
        /\ tracker' = NewTracker
        /\ last_check' = now
        /\ loop' = "research"
        /\ last' = NoEvent /\ out' = <<>>
        /\ pc' = "await"
        /\ UNCHANGED <<mode, op, topic, domain, dirs, existed, session, acquired, sent, now,
                       cur, nBlocks, started, banners, raised, nEvents, nTurns, nCmds>>
        /\ UNCHANGED <<callVars, fnVars, _tracker>>

\* research: input("Your answers: ") returns; the research instruction is sent
\* and the tracked loop starts (agent.py 255-276)
AnswerClarification ==
    \E answer \in Answers :
        /\ pc = "ask" /\ op = "research"
        /\ sent' = sent + 1
        /\ tracker' = NewTracker
        /\ last_check' = now
        /\ loop' = "research"
        /\ last' = NoEvent /\ out' = <<>>
        /\ pc' = "await"
        /\ UNCHANGED <<mode, op, topic, domain, dirs, existed, session, acquired, now, cur,
                       nBlocks, started, banners, raised, nEvents, nTurns, nCmds>>
        /\ UNCHANGED <<callVars, fnVars, _tracker>>

\* follow_up: input("Follow-up: ") returns (agent.py 379-392)
FollowUpQuestion ==
    \E answer \in Answers :
        /\ pc = "ask" /\ op = "follow"
        /\ LET question == Strip(answer) IN
           IF question = <<>>
           THEN /\ out' = <<>>
                /\ UNCHANGED <<pc, session, sent, tracker, loop, last, nTurns>>
           ELSE IF Lower(question) \in {W_done, W_quit, W_exit}
           THEN /\ out' = <<Notice("Session ended.")>>
                /\ pc' = ReturnPc /\ session' = "none"
                /\ UNCHANGED <<sent, tracker, loop, last, nTurns>>
           ELSE /\ nTurns < MaxTurns
                /\ sent' = sent + 1
                /\ tracker' = NewTracker
                /\ loop' = "follow"
                /\ last' = NoEvent /\ out' = <<>>
                /\ nTurns' = nTurns + 1
                /\ pc' = "await"
                /\ UNCHANGED session
        /\ UNCHANGED <<mode, op, topic, domain, dirs, existed, acquired, now, last_check,
                       cur, nBlocks, started, banners, raised, nEvents, nCmds>>
        /\ UNCHANGED <<callVars, fnVars, _tracker>>

\* the prompts of the operations without their except clause: EOFError or
\* KeyboardInterrupt leaves the operation
AnswerEndOfInputRaises ==
    /\ pc = "ask"
    /\ out' = <<Notice("Traceback")>>
    /\ pc' = "crashed"
    /\ raised' = TRUE
    /\ session' = "none"
    /\ UNCHANGED <<mode, op, loop, topic, domain, dirs, existed, acquired, sent, tracker,
                   now, last_check, cur, nBlocks, started, last, banners, nEvents,
                   nTurns, nCmds>>
    /\ UNCHANGED <<callVars, fnVars, _tracker>>

\* input() raises EOFError or KeyboardInterrupt at an operation's prompt
\* (agent.py 257-259, 380-382)
AnswerEndOfInput ==
    /\ pc = "ask"
    /\ out' = <<Notice(IF op = "research" THEN "\nResearch cancelled."
                                          ELSE "\nSession ended.")>>
    /\ pc' = ReturnPc
    /\ session' = "none"
    /\ UNCHANGED <<mode, op, loop, topic, domain, dirs, existed, acquired, sent, tracker,
                   now, last_check, cur, nBlocks, started, last, banners, raised, nEvents,
                   nTurns, nCmds>>
    /\ UNCHANGED <<callVars, fnVars, _tracker>>

Next ==
    \/ Main \/ ReadEndOfInput \/ ReadCommand
    \/ EnterResearch \/ DetectDomain \/ EnterFollowUp \/ EnterSynthesize
    \/ Acquire \/ TransportRaises
    \/ RecvAssistant \/ HandleText \/ HandleToolUse \/ EndMessage
    \/ RecvOther \/ RecvResult \/ StreamEnds
    \/ AnswerClarification \/ FollowUpQuestion \/ AnswerEndOfInput

Spec == Init /\ [][Next]_vars

(***************************************************************************)
(* Prompt assembly (agent.py 120-140), evaluated on its own over every     *)
(* domain identifier and every set of template files present.              *)
(***************************************************************************)
RecursionLimit == 6    \* frames of load_domain_prompt the interpreter allows

W_sports == <<"s", "p", "o", "r", "t", "s">>
CORE_MD == <<"c", "o", "r", "e">>

\* domain identifiers build_system_prompt is called with
DomainIds == Range(DOMAINS) \cup {W_sports}

\* the template files that may exist: core.md under PROMPTS_DIR and
\* <domain>.md under DOMAINS_DIR, each named by its stem
TemplateFiles == {CORE_MD} \cup DomainIds

\* Path.read_text of a template: a text that tells the templates apart
ReadText(stem) ==
    CASE stem = CORE_MD -> "# core"
      [] stem = W_tech -> "# tech"
      [] stem = W_policy -> "# policy"
      [] stem = W_thought_leadership -> "# thought-leadership"
      [] stem = W_general -> "# general"
      [] OTHER -> "# other"

Return(value) == [kind |-> "return", value |-> value]
Raise(exception) == [kind |-> "raise", value |-> exception]

\* load_prompt
load_prompt(stem, present) == IF stem \in present THEN ReadText(stem) ELSE ""

\* load_domain_prompt with its fallback removed: an absent template reads as ""
LoadDomainNoFallback(domain_, present, depth) ==
    IF domain_ \in present THEN Return(ReadText(domain_)) ELSE Return("")

\* load_domain_prompt: depth counts the frames of the recursion
RECURSIVE load_domain_prompt(_, _, _)
load_domain_prompt(domain_, present, depth) ==
    IF domain_ \in present THEN Return(ReadText(domain_))
    ELSE IF depth >= RecursionLimit THEN Raise("RecursionError")
    ELSE load_domain_prompt(W_general, present, depth + 1)

PROMPT_SEPARATOR == "\n\n---\n\n"

\* build_system_prompt
build_system_prompt(domain_, present) ==
    LET core == load_prompt(CORE_MD, present)
        domain_prompt == load_domain_prompt(domain_, present, 1)
    IN  IF domain_prompt.kind = "raise" THEN domain_prompt
        ELSE Return(core \o PROMPT_SEPARATOR \o domain_prompt.value)

\* The driver and the tracker at rest while a function is evaluated on its own.
CallsAtRest ==
    /\ tracker = NewTracker /\ now = 1
    /\ log = <<>> /\ lastCall = NoCall /\ prevTracker = NewTracker /\ prevLog = <<>>
    /\ nCalls = 0

PromptInit ==
    /\ DriverAtRest /\ CallsAtRest
    /\ fnArgs \in [fn : {"build_system_prompt"}, domain : DomainIds,
                   present : SUBSET TemplateFiles]
    /\ fnRet = NoReturn

CallBuildSystemPrompt ==
    /\ fnArgs.fn = "build_system_prompt"
    /\ fnRet = NoReturn
    /\ fnRet' = build_system_prompt(fnArgs.domain, fnArgs.present)
    /\ UNCHANGED <<fnArgs, driverVars, callVars, tracker, now>>

PromptNext == CallBuildSystemPrompt

PromptSpec == PromptInit /\ [][PromptNext]_vars

(***************************************************************************)
(* Properties of prompt assembly (PromptSpec).                             *)
(***************************************************************************)
\* C11: build_system_prompt returns, without raising, for every domain
\* identifier and every set of template files present, and it returns the
\* empty string when the requested domain's template, the template of
\* 'general' and the core template are all absent.
C11_BuildAlwaysReturns ==
    (fnArgs.fn = "build_system_prompt" /\ fnRet # NoReturn) =>
        /\ fnRet.kind = "return"
        /\ ({CORE_MD, fnArgs.domain, W_general} \cap fnArgs.present = {}
                => fnRet.value = "")

\* C12: when the requested domain's template is absent and the template of
\* 'general' is present, build_system_prompt returns the core template, the
\* separator and the template of 'general', which is what
\* build_system_prompt('general') returns, and raises nothing.
C12_FallsBackToGeneral ==
    (/\ fnArgs.fn = "build_system_prompt" /\ fnRet # NoReturn
     /\ fnArgs.domain \notin fnArgs.present /\ W_general \in fnArgs.present) =>
        /\ fnRet = Return(load_prompt(CORE_MD, fnArgs.present) \o PROMPT_SEPARATOR
                          \o ReadText(W_general))
        /\ fnRet = build_system_prompt(W_general, fnArgs.present)

C12_Witness ==
    /\ fnArgs.fn = "build_system_prompt" /\ fnRet # NoReturn
    /\ fnArgs.domain = W_tech /\ fnArgs.present = {CORE_MD, W_general}
    /\ fnRet.kind = "return"

(***************************************************************************)
(* One iteration of the command loop (agent.py 627-663), evaluated on its  *)
(* own over the lines an operator may type.                                *)
(***************************************************************************)
TypedVerbs ==
    { W_quit, <<"Q", "u", "i", "t">>, W_exit, <<"E", "X", "I", "T">>, W_q, <<"Q">>,
      W_research, <<"R", "e", "s", "e", "a", "r", "c", "h">>,
      W_research \o <<"e", "r">>,
      W_follow, <<"F", "O", "L", "L", "O", "W">>,
      W_parallel, <<"P", "a", "r", "a", "l", "l", "e", "l">>,
      W_synthesize, <<"S", "y", "n", "t", "h", "e", "s", "i", "z", "e">>,
      T_ai, T_AI }
TypedGaps == { <<" ">>, <<" ", " ">>, <<"\t">> }
TypedRests == { T_ai, T_AI, <<"a", " ", " ", "b">>, W_quit }
TypedMargins == { <<>>, <<" ">> }

\* lines typed at the ">>> " prompt: blank, a word, a word and more
TypedLines ==
    { <<>>, <<" ">>, <<" ", "\t">> }
    \cup { m \o v \o m : m \in TypedMargins, v \in TypedVerbs }
    \cup { m \o v \o g \o r \o m :
             m \in TypedMargins, v \in TypedVerbs, g \in TypedGaps, r \in TypedRests }

CommandInit ==
    /\ DriverAtRest /\ CallsAtRest
    /\ fnArgs \in [fn : {"interactive_session"}, line : TypedLines]
    /\ fnRet = NoReturn

\* input(">>> ").strip() and the dispatch on the line
ReadOneCommand ==
    /\ fnArgs.fn = "interactive_session"
    /\ fnRet = NoReturn
    /\ LET command == Strip(fnArgs.line) IN
       fnRet' = Return(IF command = <<>> THEN NoCommand ELSE ParseCommand(command))
    /\ UNCHANGED <<fnArgs, driverVars, callVars, tracker, now>>

CommandNext == ReadOneCommand

CommandSpec == CommandInit /\ [][CommandNext]_vars

(***************************************************************************)
(* Properties of the command loop's dispatch (CommandSpec).                *)
(***************************************************************************)
\* the line without its first word and the white space around what remains
RestOfLine(line) ==
    LET command == Strip(line) IN
    Strip(SubSeq(command, Len(FirstWord(command)) + 1, Len(command)))

\* the operation a verb names
VerbOperation(verb) ==
    CASE verb = W_research -> "research"
      [] verb = W_follow -> "follow"
      [] verb = W_parallel -> "parallel"
      [] verb = W_synthesize -> "synthesize"
      [] OTHER -> "none"

\* C14: a line that is not blank has exactly one outcome, chosen by its first
\* word compared without regard to case: quit, exit or q ends the loop;
\* research, follow or parallel followed by a topic calls that operation with
\* the rest of the line as topic, and without a topic prints the usage
\* message and calls nothing; synthesize calls synthesis; any other first
\* word calls research with the whole (stripped) line as topic.
C14_OneOutcomePerLine ==
    (fnArgs.fn = "interactive_session" /\ fnRet # NoReturn /\ Strip(fnArgs.line) # <<>>) =>
        LET verb == Lower(FirstWord(Strip(fnArgs.line)))
            rest == RestOfLine(fnArgs.line)
            c == fnRet.value
        IN  /\ fnRet.kind = "return"
            /\ c.do \in {"quit", "usage", "research", "follow", "parallel", "synthesize"}
            /\ verb \in {W_quit, W_exit, W_q} => c.do = "quit"
            /\ (verb \in {W_research, W_follow, W_parallel} /\ rest # <<>>) =>
                   c = [do |-> VerbOperation(verb), topic |-> rest]
            /\ (verb \in {W_research, W_follow, W_parallel} /\ rest = <<>>) =>
                   c.do = "usage"
            /\ verb = W_synthesize => c.do = "synthesize"
            /\ verb \notin {W_quit, W_exit, W_q, W_research, W_follow, W_parallel,
                            W_synthesize} =>
                   c = [do |-> "research", topic |-> Strip(fnArgs.line)]

C14_Witness ==
    /\ fnArgs.fn = "interactive_session"
    /\ fnArgs.line = <<"F", "O", "L", "L", "O", "W">> \o <<" ", " ">> \o <<"a", " ", " ", "b">>
    /\ fnRet = Return([do |-> "follow", topic |-> <<"a", " ", " ", "b">>])

(***************************************************************************)
(* slugify and get_topic_dir (agent.py 143-157), evaluated on their own    *)
(* over pairs of topics.                                                   *)
(***************************************************************************)
MaxTopicLen == 2     \* length of the topics drawn from TopicChars

TopicChars == {"a", "B", "é", "1", " ", "-", "_", "!", "."}

RECURSIVE Repeat(_, _)
Repeat(c, n) == IF n = 0 THEN <<>> ELSE <<c>> \o Repeat(c, n - 1)

\* topics around the length slugify cuts at
LongTopics ==
    { Repeat(c, n) \o tail : c \in {"a", "B"}, n \in (SLUG_MAX - 1)..(SLUG_MAX + 1),
                             tail \in {<<>>, <<"!">>} }

\* topics passed to slugify
Topics ==
    UNION { [1..n -> TopicChars] : n \in 0..MaxTopicLen }
    \cup LongTopics
    \cup { <<" ", "a">>, <<"!", " ", "a">>, <<"a", "b">>, <<"a", "-", "b">>,
           <<"a", "!", "b">>, <<"A", "I", "?">> }

SlugInit ==
    /\ DriverAtRest /\ CallsAtRest
    /\ fnArgs \in [fn : {"get_topic_dir"}, a : Topics, b : Topics]
    /\ fnRet = NoReturn

\* get_topic_dir(a), then get_topic_dir(b), on an empty TOPICS_DIR: the two
\* slugs and the directories that exist afterwards
CallGetTopicDir ==
    /\ fnArgs.fn = "get_topic_dir"
    /\ fnRet = NoReturn
    /\ fnRet' = Return([a |-> slugify(fnArgs.a), b |-> slugify(fnArgs.b),
                        dirs |-> get_topic_dir(fnArgs.b, get_topic_dir(fnArgs.a, {}))])
    /\ UNCHANGED <<fnArgs, driverVars, callVars, tracker, now>>

SlugNext == CallGetTopicDir

SlugSpec == SlugInit /\ [][SlugNext]_vars

(***************************************************************************)
(* Properties of slugify (SlugSpec).                                       *)
(***************************************************************************)
\* the characters a-z, 0-9 and the hyphen
SlugAlphabet ==
    {"a", "b", "c", "d", "e", "f", "g", "h", "i", "j", "k", "l", "m", "n", "o", "p",
     "q", "r", "s", "t", "u", "v", "w", "x", "y", "z", "-"} \cup Digits

\* C15: the slug of every topic is lower case, has no character outside
\* a-z, 0-9 and the hyphen, and is at most 50 characters long.
C15_SlugCharsetAndLength ==
    (fnArgs.fn = "get_topic_dir" /\ fnRet # NoReturn) =>
        /\ Len(fnRet.value.a) <= 50
        /\ Lower(fnRet.value.a) = fnRet.value.a
        /\ \A i \in DOMAIN fnRet.value.a : fnRet.value.a[i] \in SlugAlphabet

\* punctuation characters of the topics drawn
Punctuation == {"!", ".", "?", "-", "_"}
WithoutPunctuation(s) == SelectSeq(s, LAMBDA c : c \notin Punctuation)

\* C16: two topics that differ only in letter case or in punctuation
\* characters have the same slug, hence the same workspace directory.
C16_CaseAndPunctuationCollide ==
    (/\ fnArgs.fn = "get_topic_dir" /\ fnRet # NoReturn
     /\ Lower(WithoutPunctuation(fnArgs.a)) = Lower(WithoutPunctuation(fnArgs.b))) =>
        /\ fnRet.value.a = fnRet.value.b
        /\ Cardinality(fnRet.value.dirs) = 1

(***************************************************************************)
(* The detail shown for a fetch (agent.py 297-301, 404-407, 493-496),      *)
(* evaluated on its own over URLs of every length around the limit.        *)
(***************************************************************************)
MaxUrlExcess == 2     \* characters beyond URL_LIMIT of the longest URL but one

\* a URL of n characters, no two neighbours alike
UrlOfLen(n) == [i \in 1..n |-> ToString(i % 10)]

Urls == { UrlOfLen(n) : n \in (0..(URL_LIMIT + MaxUrlExcess)) \cup {100} }

FetchInit ==
    /\ DriverAtRest /\ CallsAtRest
    /\ fnArgs \in [fn : {"fetch"}, loop : {"research", "follow", "parallel"}, url : Urls]
    /\ fnRet = NoReturn

\* the WebFetch branch of a receive loop: the name and detail given to
\* tracker.start
DispatchFetch ==
    /\ fnArgs.fn = "fetch"
    /\ fnRet = NoReturn
    /\ fnRet' = Return(Dispatch(fnArgs.loop, ToolUseBlock("WebFetch", fnArgs.url)))
    /\ UNCHANGED <<fnArgs, driverVars, callVars, tracker, now>>

FetchNext == DispatchFetch

FetchSpec == FetchInit /\ [][FetchNext]_vars

(***************************************************************************)
(* Properties of the fetch detail (FetchSpec).                             *)
(***************************************************************************)
\* C17: the detail shown for a fetch is the URL unchanged when the URL has at
\* most 60 characters; for a longer URL it has 60 characters, a prefix of the
\* URL followed by an ellipsis; it never has more than 60 characters.
C17_FetchDetailTruncation ==
    (fnArgs.fn = "fetch" /\ fnRet # NoReturn) =>
        LET url == fnArgs.url
            shown == fnRet.value.detail
        IN  /\ fnRet.value.tool = "Fetch"
            /\ Len(shown) <= 60
            /\ Len(url) <= 60 => shown = url
            /\ Len(url) > 60 =>
                  /\ Len(shown) = 60
                  /\ SubSeq(shown, 58, 60) = <<".", ".", ".">>
                  /\ SubSeq(shown, 1, 57) = SubSeq(url, 1, 57)

(***************************************************************************)
(* detect_domain (agent.py 181-193), evaluated on its own over the replies *)
(* of the classification session.                                          *)
(***************************************************************************)
MaxReplyLen == 2       \* messages of one reply
MaxContentLen == 2     \* content blocks of one assistant message

\* texts of the TextBlocks of a reply
ReplyTexts ==
    { <<" ", "T", "e", "c", "h", "\n">>, W_sports, W_policy, W_general,
      <<"T", "H", "O", "U", "G", "H", "T", "-", "L", "E", "A", "D", "E", "R", "S", "H",
        "I", "P">>,
      W_tech \o <<".">> }

\* content blocks: TextBlocks, and a block of another type that has a text
ReplyBlocks ==
    { DetectText(t) : t \in ReplyTexts } \cup { [type |-> "thinking", text |-> W_tech] }

ReplyMessages ==
    { DetectAssistant(c) : c \in UNION { [1..n -> ReplyBlocks] : n \in 0..MaxContentLen } }
    \cup { DetectResult, [type |-> "system", content |-> <<>>] }

Replies == UNION { [1..n -> ReplyMessages] : n \in 0..MaxReplyLen }

DetectInit ==
    /\ DriverAtRest /\ CallsAtRest
    /\ fnArgs \in [fn : {"detect_domain"}, stream : Replies]
    /\ fnRet = NoReturn

CallDetectDomain ==
    /\ fnArgs.fn = "detect_domain"
    /\ fnRet = NoReturn
    /\ fnRet' = Return(detect_domain(fnArgs.stream))
    /\ UNCHANGED <<fnArgs, driverVars, callVars, tracker, now>>

DetectNext == CallDetectDomain

DetectSpec == DetectInit /\ [][DetectNext]_vars

(***************************************************************************)
(* Properties of detect_domain (DetectSpec).                               *)
(***************************************************************************)
\* the assistant text fragments of a reply in arrival order, up to its
\* ResultMessage or its end
RECURSIVE TextsBeforeResult(_)
TextsBeforeResult(stream) ==
    IF stream = <<>> \/ Head(stream).type = "result" THEN <<>>
    ELSE LET m == Head(stream)
             texts == IF m.type = "assistant"
                      THEN SelectSeq(m.content, LAMBDA b : b.type = "text")
                      ELSE <<>>
         IN  [i \in 1..Len(texts) |-> texts[i].text] \o TextsBeforeResult(Tail(stream))

\* C19: detect_domain returns a member of {tech, policy, thought-leadership,
\* general}: the domain that the first assistant text fragment which, stripped
\* of surrounding white space and lower-cased, is a domain name spells, and
\* 'general' when no fragment received before the ResultMessage or the end of
\* the stream is one.
C19_DetectDomainClosedSet ==
    (fnArgs.fn = "detect_domain" /\ fnRet # NoReturn) =>
        LET texts == TextsBeforeResult(fnArgs.stream)
            named == { i \in DOMAIN texts : Lower(Strip(texts[i])) \in Range(DOMAINS) }
        IN  /\ fnRet.kind = "return"
            /\ fnRet.value \in {W_tech, W_policy, W_thought_leadership, W_general}
            /\ named = {} => fnRet.value = W_general
            /\ named # {} =>
                  \E i \in named : /\ \A j \in named : i <= j
                                   /\ fnRet.value = Lower(Strip(texts[i]))

C19_Witness ==
    /\ fnArgs.fn = "detect_domain"
    /\ fnArgs.stream = <<DetectAssistant(<<DetectText(W_sports),
                                           DetectText(<<" ", "T", "e", "c", "h", "\n">>)>>),
                         DetectAssistant(<<DetectText(W_policy)>>)>>
    /\ fnRet = Return(W_tech)

(***************************************************************************)
(* _format_duration (agent.py 76-83), evaluated on its own over whole      *)
(* seconds.                                                                *)
(***************************************************************************)
MaxSeconds == 130     \* longest elapsed time formatted

DurationInit ==
    /\ DriverAtRest /\ CallsAtRest
    /\ fnArgs \in [fn : {"_format_duration"}, seconds : 0..MaxSeconds]
    /\ fnRet = NoReturn

CallFormatDuration ==
    /\ fnArgs.fn = "_format_duration"
    /\ fnRet = NoReturn
    /\ fnRet' = Return(FormatDuration(fnArgs.seconds))
    /\ UNCHANGED <<fnArgs, driverVars, callVars, tracker, now>>

DurationNext == CallFormatDuration

DurationSpec == DurationInit /\ [][DurationNext]_vars

(***************************************************************************)
(* Properties of _format_duration (DurationSpec).                          *)
(***************************************************************************)
\* C22: a whole number N of seconds under 60 is formatted '<N>s'; from 60 on
\* it is formatted '<M>m <S>s' with M = N div 60 and S = N mod 60, S in 0..59:
\* 45 gives '45s', 60 gives '1m 0s', 125 gives '2m 5s'.
C22_DurationFormat ==
    (fnArgs.fn = "_format_duration" /\ fnRet # NoReturn) =>
        LET n == fnArgs.seconds
            text == fnRet.value
        IN  /\ fnRet.kind = "return"
            /\ n < 60 => text = ToString(n) \o "s"
            /\ n >= 60 =>
                  \E m \in 1..n, sec \in 0..59 :
                      /\ 60 * m + sec = n
                      /\ text = ToString(m) \o "m " \o ToString(sec) \o "s"
            /\ n = 45 => text = "45s"
            /\ n = 59 => text = "59s"
            /\ n = 60 => text = "1m 0s"
            /\ n = 125 => text = "2m 5s"

C22_Witness ==
    /\ fnArgs.fn = "_format_duration" /\ fnArgs.seconds = 125
    /\ fnRet = Return("2m 5s")

(***************************************************************************)
(* main's dispatch on the argument list (agent.py 668-686), evaluated on   *)
(* its own.                                                                *)
(***************************************************************************)
MaxArgs == 3     \* arguments after the program name

ArgWords ==
    { W_follow, <<"F", "o", "l", "l", "o", "w">>, W_parallel, W_synthesize, W_research,
      T_ai, T_AI }

\* sys.argv[1:]
ArgLists == UNION { [1..n -> ArgWords] : n \in 0..MaxArgs }

ArgvInit ==
    /\ DriverAtRest /\ CallsAtRest
    /\ fnArgs \in [fn : {"main"}, argv : ArgLists]
    /\ fnRet = NoReturn

\* main: the operation run and its topic
DispatchArgv ==
    /\ fnArgs.fn = "main"
    /\ fnRet = NoReturn
    /\ fnRet' = Return(ParseArgv(fnArgs.argv))
    /\ UNCHANGED <<fnArgs, driverVars, callVars, tracker, now>>

ArgvNext == DispatchArgv

ArgvSpec == ArgvInit /\ [][ArgvNext]_vars

(***************************************************************************)
(* Properties of main's dispatch (ArgvSpec).                               *)
(***************************************************************************)
\* the words from the k-th on, each two separated by one space
RECURSIVE SpaceSeparated(_, _)
SpaceSeparated(words, k) ==
    IF k > Len(words) THEN <<>>
    ELSE IF k = Len(words) THEN words[k]
    ELSE words[k] \o <<" ">> \o SpaceSeparated(words, k + 1)

\* C23: in one-shot invocation a leading 'follow' or 'parallel' with at least
\* one more argument runs that operation on the remaining arguments joined by
\* single spaces; a leading 'synthesize' runs synthesis; any other non-empty
\* argument list, a lone 'follow' or 'parallel' included, runs research on all
\* arguments joined by single spaces; an empty list starts the interactive
\* loop.
C23_ArgvSelectsOperation ==
    (fnArgs.fn = "main" /\ fnRet # NoReturn) =>
        LET argv == fnArgs.argv
            c == fnRet.value
        IN  /\ fnRet.kind = "return"
            /\ argv = <<>> => c.do = "interactive"
            /\ (Len(argv) > 1 /\ argv[1] = W_follow) =>
                   c = [do |-> "follow", topic |-> SpaceSeparated(argv, 2)]
            /\ (Len(argv) > 1 /\ argv[1] = W_parallel) =>
                   c = [do |-> "parallel", topic |-> SpaceSeparated(argv, 2)]
            /\ (Len(argv) > 0 /\ argv[1] = W_synthesize) => c.do = "synthesize"
            /\ (/\ Len(argv) > 0 /\ argv[1] # W_synthesize
                /\ (Len(argv) = 1 \/ argv[1] \notin {W_follow, W_parallel})) =>
                   c = [do |-> "research", topic |-> SpaceSeparated(argv, 1)]

C23_Witness ==
    /\ fnArgs.fn = "main" /\ fnArgs.argv = <<W_follow>>
    /\ fnRet = Return([do |-> "research", topic |-> W_follow])

(***************************************************************************)
(* Properties of the tracker driven call by call (TrackerSpec).            *)
(***************************************************************************)
StartCompleteLines(lines) == SelectSeq(lines, LAMBDA l : l.kind \in {"start", "complete"})
CountKind(lines, kind) == Len(SelectSeq(lines, LAMBDA l : l.kind = kind))

\* C6: start(B) on a tracker with a record for A open prints the complete line
\* of A immediately before the start line of B and leaves the tracker Active
\* with B's name and detail; start on an Idle tracker prints the start line
\* alone; every start line printed so far has its complete line, except the
\* one of the record that is open.
C6_StartCompletesOpenRecord ==
    /\ lastCall.name = "start" =>
          /\ IsOpen(tracker)
          /\ tracker.current_tool = Some(lastCall.tool)
          /\ tracker.current_detail = lastCall.detail
          /\ tracker.start_time = Some(now)
          /\ IF IsOpen(prevTracker)
             THEN /\ Len(log) = Len(prevLog) + 2
                  /\ SubSeq(log, 1, Len(prevLog)) = prevLog
                  /\ log[Len(log) - 1].kind = "complete"
                  /\ log[Len(log) - 1].tool = prevTracker.current_tool[1]
                  /\ log[Len(log)] = Line("start", now, lastCall.tool, lastCall.detail, "")
             ELSE log = prevLog \o <<Line("start", now, lastCall.tool, lastCall.detail, "")>>
    /\ CountKind(log, "start") =
          CountKind(log, "complete") + (IF IsOpen(tracker) THEN 1 ELSE 0)

\* C6 witness: start(B) was called while a record for another tool A was open
C6_Witness ==
    /\ lastCall.name = "start"
    /\ IsOpen(prevTracker)
    /\ prevTracker.current_tool # Some(lastCall.tool)
    /\ lastCall.detail # <<>>

\* C7: after any sequence of start, complete and check_slow the start and
\* complete lines printed alternate, beginning with a start line, every
\* complete line names the tool of the start line before it, and a record is
\* open exactly when the last of these lines is a start line, whose tool it holds.
C7_StartCompleteAlternate ==
    LET sc == StartCompleteLines(log) IN
    /\ \A i \in 1..Len(sc) :
          IF i % 2 = 1
          THEN sc[i].kind = "start"
          ELSE sc[i].kind = "complete" /\ sc[i].tool = sc[i - 1].tool
    /\ IsOpen(tracker) <=> Len(sc) % 2 = 1
    /\ IsOpen(tracker) => tracker.current_tool = Some(sc[Len(sc)].tool)

\* C7 witness: two records were started and completed, with a heartbeat between
C7_Witness ==
    /\ Len(StartCompleteLines(log)) >= 4
    /\ CountKind(log, "slow") >= 1
    /\ \E i \in 1..Len(log) : log[i].kind = "complete" /\ log[i].tool = "Fetch"
    /\ \E i \in 1..Len(log) : log[i].kind = "complete" /\ log[i].tool = "Search"

\* C8: complete() on an Idle tracker prints nothing and leaves it Idle, and
\* from any tracker state a second complete() changes neither the state nor
\* the output that the first complete() left.
C8_CompleteIdempotent ==
    /\ (lastCall.name = "complete" /\ ~IsOpen(prevTracker)) =>
          (log = prevLog /\ tracker = NewTracker /\ ~IsOpen(tracker))
    /\ \A d \in Deltas :
          LET once == Complete(tracker, now)
              twice == Complete(once.t, now + d)
          IN  twice.t = once.t /\ once.out \o twice.out = once.out

\* C8 witness: complete() was called on a tracker that an earlier complete()
\* had already closed
C8_Witness ==
    /\ lastCall.name = "complete"
    /\ ~IsOpen(prevTracker)
    /\ CountKind(log, "complete") >= 1
    /\ log[Len(log)].kind = "complete"

(***************************************************************************)
(* Properties of the driver (Spec).                                        *)
(***************************************************************************)
\* the operation has returned to its caller without an exception
Returned == pc \in {"prompt", "exit"} /\ ~raised

\* C1: when an operation returns normally - its stream ended with a
\* ResultMessage or was exhausted - the tracker of its receive loop is Idle:
\* every start line has had its complete line.
C1_TrackerIdleOnReturn == Returned => ~IsOpen(tracker)

\* C2 as claimed: in a tracked receive loop no text fragment is displayed
\* while the tracker has an open record.
C2_NoTextWhileRecordOpen ==
    (pc = "blocks" /\ Tracked(loop) /\ cur.type = "text") => ~IsOpen(tracker)

\* C2 as amended: in a tracked receive loop the record that is open when an
\* assistant event arrives is completed before any block of the event is
\* handled, so a text fragment is displayed with a record open only when a
\* tool-invocation block earlier in the same event started that record.
C2_OpenRecordCompletedAtEvent ==
    /\ (pc = "blocks" /\ Tracked(loop) /\ nBlocks = 0) =>
          (~IsOpen(tracker) /\ CountKind(out, "text") = 0)
    /\ (pc = "blocks" /\ Tracked(loop) /\ cur.type = "text") =>
          /\ out = <<Line("text", now, "", <<>>, "")>>
          /\ IsOpen(tracker) =>
                (started > 0 /\ nBlocks > 1 /\ tracker.start_time = Some(now))

\* C2 witness: an assistant event arrived while a record was open, and its
\* complete line was printed before any block of the event
C2_Witness ==
    /\ pc = "blocks" /\ Tracked(loop) /\ nBlocks = 0
    /\ CountKind(out, "complete") = 1
    /\ ~IsOpen(tracker)

\* C3 as claimed: in a tracked receive loop every tool invocation of a
\* capability on the operation's allow-list prints exactly one start line.
C3_AllowedToolInvocationStarts ==
    (pc = "blocks" /\ Tracked(loop) /\ cur.type = "tool_use"
       /\ cur.name \in AllowedTools(op)) =>
        CountKind(out, "start") = 1

\* the tool names each receive loop starts a record for, and the name it shows
StartedTools(loop_) ==
    CASE loop_ = "research" -> {"WebSearch", "WebFetch", "Write", "Read"}
      [] loop_ = "follow" -> {"WebSearch", "WebFetch", "Write"}
      [] loop_ = "parallel" -> {"WebSearch", "WebFetch", "Write", "Read", "Task", "TodoWrite"}
      [] loop_ = "synthesize" -> {"Write", "Read"}
      [] OTHER -> {}
ShownAs(name) ==
    CASE name = "WebSearch" -> "Search"
      [] name = "WebFetch" -> "Fetch"
      [] name = "Write" -> "Save"
      [] OTHER -> name

\* C3 as amended: a tool invocation prints exactly one start line, and opens
\* the record of that tool, when its name is one the loop dispatches on
\* (research: WebSearch, WebFetch, Write, Read; follow-up: WebSearch,
\* WebFetch, Write; parallel: those of research, Task, TodoWrite; synthesis:
\* Write, Read); any other invocation, allow-listed or not, prints nothing.
C3_DispatchedToolInvocationStarts ==
    (pc = "blocks" /\ Tracked(loop) /\ cur.type = "tool_use") =>
        IF cur.name \in StartedTools(loop)
        THEN /\ CountKind(out, "start") = 1
             /\ out[Len(out)].kind = "start"
             /\ out[Len(out)].tool = ShownAs(cur.name)
             /\ IsOpen(tracker)
             /\ tracker.current_tool = Some(ShownAs(cur.name))
        ELSE out = <<>>

\* C3 witness: synthesis was handed a Write invocation and started "Save"
\* with the file's base name
C3_Witness ==
    /\ pc = "blocks" /\ loop = "synthesize"
    /\ cur.type = "tool_use" /\ cur.name = "Write"
    /\ out[Len(out)] = Line("start", now, "Save", <<"a", ".", "m", "d">>, "")

\* C4: follow-up on a topic whose directory did not exist when it was called
\* opens no session.
C4_NoSessionForMissingWorkspace ==
    (op = "follow" /\ ~existed) => (session = "none" /\ acquired = 0)

\* C5: in the command loop an operation that fails with a transport
\* exception does not end the loop.
C5_CommandLoopSurvivesFailure ==
    (mode = "interactive" /\ raised) => pc # "crashed"

\* C9: in the research, parallel and synthesis loops the first ResultMessage
\* completes the open record, prints the banner once and ends the loop: the
\* operation has returned, and nothing is printed after the banner but its
\* cost line.
C9_ResultEndsLoop ==
    /\ banners <= 1
    /\ (OverMessages(loop) /\ last.type = "result") =>
          /\ pc \in {"prompt", "exit"}
          /\ session = "none"
          /\ ~IsOpen(tracker)
          /\ banners = 1
          /\ CountKind(out, "banner") = 1
          /\ CountKind(out, "text") = 0 /\ CountKind(out, "start") = 0
          /\ \A i \in 1..Len(out) :
                out[i].kind = "banner" =>
                    \A j \in (i + 1)..Len(out) : out[j].kind = "cost"

\* C9 witness: a ResultMessage arrived while a record was open
C9_Witness ==
    /\ OverMessages(loop) /\ last.type = "result"
    /\ CountKind(out, "complete") = 1
    /\ CountKind(out, "banner") = 1

\* C10: the banner printed at a ResultMessage has a cost line exactly when
\* the message carries a cost.
C10_CostLineIffCostPresent ==
    (last.type = "result" /\ CountKind(out, "banner") = 1) =>
        (CountKind(out, "cost") = 1 <=> last.cost # None)

\* the notice an operation prints when input() raises at its prompt
EndOfInputNotice(lines) ==
    /\ Len(lines) = 1 /\ lines[1].kind = "notice"
    /\ lines[1].text \in {"\nResearch cancelled.", "\nSession ended."}

\* C13: end-of-input or an interrupt at the prompt of an operation (research's
\* clarification answers, follow-up's question) ends that operation only: its
\* notice is printed, no further instruction is sent on the session, the
\* session is closed, no exception leaves the operation, and the operation
\* returns to its caller, which in interactive mode is the command loop at
\* its prompt.
C13_EndOfInputEndsOperationOnly ==
    [][pc = "ask" =>
         /\ ~raised' /\ pc' \in {"ask", "await", "prompt", "exit"}
         /\ (EndOfInputNotice(out') =>
                /\ sent' = sent /\ session' = "none"
                /\ pc' = (IF mode = "interactive" THEN "prompt" ELSE "exit")
                /\ out'[1].text = (IF op = "research" THEN "\nResearch cancelled."
                                                      ELSE "\nSession ended."))]_vars

C13_Witness ==
    /\ mode = "interactive" /\ pc = "prompt" /\ op = "follow" /\ ~raised
    /\ EndOfInputNotice(out) /\ session = "none" /\ sent = 1

\* C18: in the receive loops of follow-up and of parallel research, an event
\* delivered more than 10 seconds after the previous poll is preceded by a
\* call of check_slow, so that a record open for more than 30 seconds at that
\* delivery gets its heartbeat line before the event is handled.  (follow_up
\* keeps no last_check: a record open for more than 30 seconds was started
\* while an earlier event was handled, so any poll before it is more than 10
\* seconds old.)
C18_SlowPollAtDelivery ==
    [][(/\ pc = "await" /\ loop \in {"follow", "parallel"}
        /\ last'.type \in {"assistant", "other", "result"}
        /\ (nEvents' = nEvents + 1 \/ last'.type = "result")
        /\ IsOpen(tracker) /\ now' - tracker.start_time[1] > SLOW_THRESHOLD
        /\ (loop = "parallel" => now' - last_check > POLL_INTERVAL))
       => (out' # <<>> /\ out'[1].kind = "slow")]_vars

\* C20: check_slow leaves the tracker as it was (name, detail and start time);
\* it prints one heartbeat line, naming the open record's tool, if and only if
\* a record is open and more than 30 seconds have passed since its start, and
\* it does so at every such call, not once per record.
C20_CheckSlowFrame ==
    lastCall.name = "check_slow" =>
        /\ tracker = prevTracker
        /\ IF IsOpen(prevTracker) /\ now - prevTracker.start_time[1] > 30
           THEN /\ Len(log) = Len(prevLog) + 1
                /\ SubSeq(log, 1, Len(prevLog)) = prevLog
                /\ log[Len(log)].kind = "slow"
                /\ log[Len(log)].tool = prevTracker.current_tool[1]
                /\ log[Len(log)].at = now
           ELSE log = prevLog

C20_Witness ==
    /\ lastCall.name = "check_slow" /\ IsOpen(tracker)
    /\ Len(log) >= 3
    /\ log[Len(log)].kind = "slow" /\ log[Len(log) - 1].kind = "slow"
    /\ log[Len(log) - 2].kind = "start"

\* a receive loop is in progress
InReceiveLoop == pc \in {"await", "blocks"}

\* C21: on one session sending and draining alternate: a receive loop is
\* entered by sending exactly one instruction, an instruction is sent only
\* when no receive loop is in progress, and an instruction after the first
\* is sent only after the preceding loop has ended (at its ResultMessage or
\* at the end of its event stream).
C21_SendDrainAlternate ==
    [][/\ (~InReceiveLoop /\ InReceiveLoop') => sent' = sent + 1
       /\ InReceiveLoop => sent' = sent
       /\ sent' > sent =>
             /\ sent' = sent + 1 /\ ~InReceiveLoop /\ InReceiveLoop'
             /\ session' = "open"
             /\ sent > 0 => last.type \in {"result", "end"}]_vars

C21_Witness ==
    /\ pc = "await" /\ loop = "follow" /\ session = "open" /\ sent = 2
    /\ last.type = "none"

\* C24: no tracker state is carried from one operation or turn to the next:
\* every tracked receive loop (research, each follow-up question, parallel
\* research, synthesis) is entered with a new, Idle tracker, whatever the
\* tracker of the previous loop was left as, and the module's global tracker
\* is never started.
C24_NoTrackerCarryOver ==
    [][/\ (~InReceiveLoop /\ InReceiveLoop' /\ Tracked(loop')) =>
              (tracker' = NewTracker /\ ~IsOpen(tracker'))
       /\ _tracker' = NewTracker /\ _tracker = NewTracker]_vars

\* a record left open by the previous loop is gone when the next loop starts
C24_Witness ==
    /\ pc = "await" /\ Tracked(loop) /\ last = NoEvent
    /\ mode = "interactive" /\ nCmds = 2 /\ nEvents > 0
    /\ tracker = NewTracker /\ _tracker = NewTracker

====
